---- MODULE Spec2Model ----
(***************************************************************************)
(* Model of fantasy-football-api: the Lambda entry point lambda_handler    *)
(* (api_lambda.py), the scoring function calculate_fantasy_points (both    *)
(* copies), and the PostgreSQL storage the handler writes through          *)
(* psycopg2 (three tables with composite uniqueness constraints).          *)
(*                                                                         *)
(* Python values are tagged records (int / str / None / float) so that a   *)
(* JSON null, a missing key and a non-numeric value stay distinguishable,  *)
(* as they are for dict.get and for the arithmetic operators.              *)
(* A float that round(x, 1) produced is held as its number of tenths.      *)
(***************************************************************************)
EXTENDS Integers, Sequences, FiniteSets, TLC

(* ------------------------------ bounds --------------------------------- *)
\* largest batch the provider returns
MaxBatch == 2
\* invocations of lambda_handler started in one behaviour
MaxInvocations == 2
\* last calendar day the clock reaches
MaxDay == 1
\* scoring inputs: yard fields range over -MaxYards..MaxYards, counts over 1..MaxCount
MaxYards == 2
MaxCount == 1

(* --------------------------- Python values ----------------------------- *)
PyInt(n) == [type |-> "int", val |-> n]
PyStr(s) == [type |-> "str", val |-> s]
PyNone == [type |-> "NoneType"]
\* a float with one decimal place, held as tenths
PyFloat(t) == [type |-> "float", tenths |-> t]
\* the exception object a call raised instead of returning
Raised(e) == [type |-> "exception", text |-> e]

IsRaised(v) == v.type = "exception"
IsNumber(v) == v.type = "int"

\* dict.get(key, default): the default only when the key is absent; a key
\* that is present with a JSON null yields None
Get(d, k, default) == IF k \in DOMAIN d THEN d[k] ELSE default

(* ------------------------------ scoring -------------------------------- *)
StatFields == {"PassingYards", "PassingTouchdowns", "Interceptions",
               "RushingYards", "RushingTouchdowns", "ReceivingYards",
               "ReceivingTouchdowns", "Receptions", "Fumbles"}

\* round(points, 1) for points = n/d (d > 0): the nearest tenth, ties to even.
\* Returns the number of tenths.  \div is floor division and % is
\* non-negative, so this is symmetric for negative scores as Python's is.
RoundTenths(n, d) ==
    LET q == (10 * n) \div d
        r == (10 * n) % d
    IN  IF 2 * r < d THEN q
        ELSE IF 2 * r > d THEN q + 1
        ELSE IF q % 2 = 0 THEN q ELSE q + 1

\* integer-truncating division in place of true division
TruncDivPoints(py, ptd, ints, ry, rtd, recy, rectd, rec, fum) ==
    50 * ((py \div 25) + ptd * 4 - ints * 2 + (ry \div 10) + rtd * 6
          + (recy \div 10) + rectd * 6 + rec - fum * 2)

\* The accumulation of api_lambda.py lines 166-183 over numeric operands,
\* as an exact rational with denominator 50 (25 and 10 both divide 50).
\* The float sum differs from the exact one by less than 1e-9 for any
\* realistic magnitude, and 10*points is a multiple of 1/5, so never
\* within 1/10 of a rounding tie: the exact value rounds as the float does.
LambdaPoints50(py, ptd, ints, ry, rtd, recy, rectd, rec, fum) ==
    LET p0 == 0
        p1 == p0 + 2 * py           \* points += (PassingYards / 25) * 1
        p2 == p1 + 50 * (ptd * 4)   \* points += PassingTouchdowns * 4
        p3 == p2 - 50 * (ints * 2)  \* points -= Interceptions * 2
        p4 == p3 + 5 * ry           \* points += (RushingYards / 10) * 1
        p5 == p4 + 50 * (rtd * 6)   \* points += RushingTouchdowns * 6
        p6 == p5 + 5 * recy         \* points += (ReceivingYards / 10) * 1
        p7 == p6 + 50 * (rectd * 6) \* points += ReceivingTouchdowns * 6
        p8 == p7 + 50 * (rec * 1)   \* points += Receptions * 1
        p9 == p8 - 50 * (fum * 2)   \* points -= Fumbles * 2
    IN  p9

\* passing yards counted per 20 instead of per 25: the value is a number
\* of hundredths, n/100
PointsPer20(stat) ==
    LET g(k) == Get(stat, k, PyInt(0)).val
    IN  [n |-> 5 * g("PassingYards") + 400 * g("PassingTouchdowns")
               - 200 * g("Interceptions") + 10 * g("RushingYards")
               + 600 * g("RushingTouchdowns") + 10 * g("ReceivingYards")
               + 600 * g("ReceivingTouchdowns") + 100 * g("Receptions")
               - 200 * g("Fumbles"),
         d |-> 100]

\* the value of `points` when line 185 is reached, for a record whose
\* operands are numbers: the exact rational n/d, every operand being
\* stat.get(field, 0)
UnroundedPoints(stat) ==
    LET g(k) == Get(stat, k, PyInt(0)).val
    IN  [n |-> LambdaPoints50(g("PassingYards"), g("PassingTouchdowns"),
                              g("Interceptions"), g("RushingYards"),
                              g("RushingTouchdowns"), g("ReceivingYards"),
                              g("ReceivingTouchdowns"), g("Receptions"),
                              g("Fumbles")),
         d |-> 50]

\* calculate_fantasy_points(stat) of api_lambda.py.  Every operand is
\* stat.get(field, 0); an operand that is not a number (None, a string)
\* makes the arithmetic raise TypeError.
calculate_fantasy_points(stat) ==
    LET g(k) == Get(stat, k, PyInt(0))
    IN  IF \E k \in StatFields : ~IsNumber(g(k))
        THEN Raised("TypeError: unsupported operand type(s)")
        ELSE PyFloat(RoundTenths(UnroundedPoints(stat).n, UnroundedPoints(stat).d))

\* SportsDataScraper.calculate_fantasy_points(stat) of sportsdata_scraper.py
ScraperPoints50(py, ptd, ints, ry, rtd, recy, rectd, rec, fum) ==
    LET p0 == 0
        p1 == p0 + 2 * py
        p2 == p1 + 50 * (ptd * 4)
        p3 == p2 - 50 * (ints * 2)
        p4 == p3 + 5 * ry
        p5 == p4 + 50 * (rtd * 6)
        p6 == p5 + 5 * recy
        p7 == p6 + 50 * (rectd * 6)
        p8 == p7 + 50 * (rec * 1)
        p9 == p8 - 50 * (fum * 2)
    IN  p9

Scraper_calculate_fantasy_points(stat) ==
    LET g(k) == Get(stat, k, PyInt(0))
    IN  IF \E k \in StatFields : ~IsNumber(g(k))
        THEN Raised("TypeError: unsupported operand type(s)")
        ELSE PyFloat(RoundTenths(
                 ScraperPoints50(g("PassingYards").val, g("PassingTouchdowns").val,
                                 g("Interceptions").val, g("RushingYards").val,
                                 g("RushingTouchdowns").val, g("ReceivingYards").val,
                                 g("ReceivingTouchdowns").val, g("Receptions").val,
                                 g("Fumbles").val), 50))

(* ------------------------- program constants --------------------------- *)
\* event.get('week', 1) and week_response.json().get('Week', 1)
DefaultWeek == 1
\* event.get('year', 2024)
DefaultYear == 2024
\* name VARCHAR(100), team VARCHAR(3), position VARCHAR(5)
NameMaxLen == 100
TeamMaxLen == 3
PositionMaxLen == 5
\* fantasy_points DECIMAL(5,2): |value| < 10^3, held in hundredths
NumericLimit == 100000

(* ------------------------------ the state ------------------------------ *)
VARIABLES
    tables,        \* whether CREATE TABLE IF NOT EXISTS has been committed
    players,       \* committed rows of players
    games,         \* committed rows of games
    player_stats,  \* committed rows of player_stats
    seq,           \* the three SERIAL sequences (nextval is not transactional)
    today,         \* the latest date a transaction has started on
    inv,           \* per concurrent invocation: the handler's locals and position
    snapshot,      \* per invocation: the committed storage when it started
    invocations,   \* invocations started so far
    lastRun,       \* the week, year and batch of the latest invocation to commit
    score          \* the scoring check: the record and what each copy returned

vars == <<tables, players, games, player_stats, seq, today, inv, snapshot,
          invocations, lastRun, score>>

Procs == {1, 2}

Storage == [players |-> players, games |-> games, player_stats |-> player_stats]

NoRun == [week |-> PyNone, year |-> PyNone, stats_data |-> <<>>]

\* what an invocation finds when it starts
NoSnapshot == [tables |-> FALSE, storage |-> [players |-> {}, games |-> {}, player_stats |-> {}],
               lastRun |-> NoRun]

(* ------------------------- the environment's inputs -------------------- *)
EmptyDict == [k \in {} |-> PyNone]

\* os.environ: each of the two variables set or not
Envs == { [k \in D |-> PyStr("set")] : D \in SUBSET {"DB_SECRET_ARN", "SPORTSDATA_API_KEY"} }

\* the event: week given (1 or 2) or not; year never given
Events == { EmptyDict, [week |-> PyInt(1)], [week |-> PyInt(2)] }

\* the body of the CurrentWeek answer
WeekBodies == { EmptyDict, [Week |-> PyInt(2)] }

\* the provider's records a batch is drawn from
RecA_QB == [Name |-> PyStr("A"), Team |-> PyStr("T"), Position |-> PyStr("QB"),
            PassingYards |-> PyInt(30)]
RecA_RB == [Name |-> PyStr("A"), Team |-> PyStr("T"), Position |-> PyStr("RB"),
            RushingYards |-> PyInt(7)]
\* no Name and no Team key: both default to ''
RecAnon == [Position |-> PyStr("WR"), Receptions |-> PyInt(1)]
\* "Team": null (a free agent), seen at two positions
RecFreeAgent == [Name |-> PyStr("A"), Team |-> PyNone, Position |-> PyStr("QB"),
                 PassingTouchdowns |-> PyInt(1)]
RecFreeAgent_RB == [Name |-> PyStr("A"), Team |-> PyNone, Position |-> PyStr("RB"),
                    RushingYards |-> PyInt(7)]
\* "Name": null
RecNoName == [Name |-> PyNone, Team |-> PyStr("T"), Position |-> PyStr("TE")]
\* a score that does not fit DECIMAL(5,2)
RecHuge == [Name |-> PyStr("B"), Team |-> PyStr("T"), Position |-> PyStr("WR"),
            Receptions |-> PyInt(1000)]
\* "PassingYards": null
RecBadStat == [Name |-> PyStr("B"), Team |-> PyStr("T"), Position |-> PyStr("K"),
               PassingYards |-> PyNone]

RawRecords == {RecA_QB, RecA_RB, RecAnon, RecFreeAgent, RecFreeAgent_RB, RecNoName,
               RecHuge, RecBadStat}

\* the batches of at most MaxBatch records over a set of records
BatchesOf(records) == UNION { [1..n -> records] : n \in 0..MaxBatch }

Batches == BatchesOf(RawRecords)

\* what the environment hands the handler: the events, the CurrentWeek
\* answers and the batches
Inputs == [events |-> Events, bodies |-> WeekBodies, batches |-> Batches]

\* the inputs of two invocations at a time
ConcInputs == [events |-> {EmptyDict, [week |-> PyInt(2)]}, bodies |-> {EmptyDict},
               batches |-> BatchesOf({RecA_QB, RecAnon, RecFreeAgent})]

\* Python truthiness of the values the handler tests
Truthy(v) ==
    CASE v.type = "int" -> v.val # 0
      [] v.type = "str" -> v.val # ""
      [] OTHER -> FALSE

(* --------------------------- handler results --------------------------- *)
NoResult == [kind |-> "none"]
Response(code, body) == [kind |-> "response", statusCode |-> code, body |-> body]
\* an exception that leaves lambda_handler
Uncaught(e) == [kind |-> "raised", text |-> e]

\* no rows of any table
EmptyTx == [players |-> {}, games |-> {}, player_stats |-> {}]

IdleProc == [pc |-> "idle", env |-> EmptyDict, event |-> EmptyDict,
             current_week |-> PyNone, current_year |-> PyNone,
             stats_data |-> <<>>, all_players |-> <<>>, i |-> 0,
             game_id |-> 0, player_id |-> 0, success_count |-> 0, txdate |-> 0,
             tx |-> EmptyTx, aborted |-> FALSE, fetched |-> FALSE,
             transport_error |-> PyNone, connected |-> FALSE,
             requests |-> 0, dbOps |-> 0, result |-> NoResult]

(* --------------------------- the database ------------------------------ *)
\* What a transaction sees and what COMMIT leaves: the committed rows, with
\* the rows the transaction wrote in place of the versions they replace.
Overlay(base, delta) == {r \in base : ~\E d \in delta : d.id = r.id} \cup delta

\* conn.commit() (api_lambda.py line 142) on one table.  COMMIT on a
\* transaction a failed statement has aborted is a ROLLBACK (conn.commit()
\* returns normally): nothing the transaction wrote is kept.
CommitRows(base, delta, aborted) == IF aborted THEN base ELSE Overlay(base, delta)

\* UNIQUE(name, team): two rows conflict when name and team are equal; SQL
\* NULL is equal to nothing, a NULL team never conflicts
PlayerConflict(r, name, team) ==
    /\ team # PyNone
    /\ r.name = name
    /\ r.team = team

GameConflict(r, week, year) == r.week = week /\ r.year = year

StatConflict(r, player_id, game_id) == r.player_id = player_id /\ r.game_id = game_id

\* the column types and NOT NULL of CREATE TABLE players
ValidPlayerValues(name, team, position) ==
    /\ name.type = "str" /\ Len(name.val) <= NameMaxLen
    /\ team = PyNone \/ (team.type = "str" /\ Len(team.val) <= TeamMaxLen)
    /\ position = PyNone \/ (position.type = "str" /\ Len(position.val) <= PositionMaxLen)

\* fantasy_points DECIMAL(5,2) of a float held in tenths: the value in
\* hundredths, or numeric field overflow
FitsNumeric(fp) == fp.type = "float" /\ -NumericLimit < 10 * fp.tenths /\ 10 * fp.tenths < NumericLimit

\* INSERT ... ON CONFLICT DO UPDATE waits for a transaction that has written
\* (inserted or updated, not yet committed) a row with the same key
PlayerLockedByOther(p, name, team) ==
    \E q \in Procs \ {p} : \E r \in inv[q].tx.players : PlayerConflict(r, name, team)

GameLockedByOther(p, week, year) ==
    \E q \in Procs \ {p} : \E r \in inv[q].tx.games : GameConflict(r, week, year)

StatLockedByOther(p, player_id, game_id) ==
    \E q \in Procs \ {p} : \E r \in inv[q].tx.player_stats : StatConflict(r, player_id, game_id)

\* INSERT INTO games ... ON CONFLICT (week, year) DO UPDATE SET game_date
\* (lines 106-111): the rows of the transaction afterwards.  id is the
\* nextval the statement drew, used only when the row is new.
UpsertGameRows(view, txrows, week, year, id, now) ==
    IF \E r \in view : GameConflict(r, week, year)
    THEN LET old == CHOOSE r \in view : GameConflict(r, week, year)
         IN  {r \in txrows : r.id # old.id} \cup {[old EXCEPT !.game_date = now]}
    ELSE txrows \cup {[id |-> id, week |-> week, year |-> year, game_date |-> now]}

\* INSERT INTO players ... ON CONFLICT (name, team) DO UPDATE SET position
\* (lines 118-123)
UpsertPlayerRows(view, txrows, name, team, position, id) ==
    IF \E r \in view : PlayerConflict(r, name, team)
    THEN LET old == CHOOSE r \in view : PlayerConflict(r, name, team)
         IN  {r \in txrows : r.id # old.id} \cup {[old EXCEPT !.position = position]}
    ELSE txrows \cup {[id |-> id, name |-> name, team |-> team, position |-> position]}

\* INSERT INTO player_stats ... ON CONFLICT (player_id, game_id) DO UPDATE
\* SET fantasy_points, updated_at (lines 129-134)
UpsertStatRows(view, txrows, player_id, game_id, fp, id, now) ==
    IF \E r \in view : StatConflict(r, player_id, game_id)
    THEN LET old == CHOOSE r \in view : StatConflict(r, player_id, game_id)
         IN  {r \in txrows : r.id # old.id}
             \cup {[old EXCEPT !.fantasy_points = 10 * fp.tenths, !.updated_at = now]}
    ELSE txrows \cup {[id |-> id, player_id |-> player_id, game_id |-> game_id,
                       fantasy_points |-> 10 * fp.tenths, updated_at |-> now]}

\* RETURNING id: the id of the row with the key, after the upsert
ReturnedGameId(rows, week, year) == (CHOOSE r \in rows : GameConflict(r, week, year)).id

\* RETURNING id of the players upsert; a row with a NULL team is always the
\* one just inserted
ReturnedPlayerId(rows, name, team, id) ==
    IF team = PyNone THEN id
    ELSE (CHOOSE r \in rows : PlayerConflict(r, name, team)).id

(* ----------------------------- lambda_handler -------------------------- *)
\* the 500 response without the text of the exception
Fail500NoText(s, e) ==
    [s EXCEPT !.pc = "done", !.tx = EmptyTx,
              !.result = Response(500, PyStr("Error: internal error"))]

\* except Exception as e (lines 157-162): the 500 response; the connection,
\* if one is open, is dropped with its transaction, which rolls it back
Fail500(s, e) ==
    [s EXCEPT !.pc = "done", !.tx = EmptyTx,
              !.result = Response(500, PyStr("Error: " \o e))]

\* lines 43-45: whether scoring some record raises, and the exception of
\* the first record that does (it ends the loop, outside the per-player try)
ScoreFails(stats_data) ==
    \E k \in 1..Len(stats_data) : IsRaised(calculate_fantasy_points(stats_data[k]))

FirstScoreError(stats_data) ==
    calculate_fantasy_points(
        stats_data[CHOOSE k \in 1..Len(stats_data) :
            /\ IsRaised(calculate_fantasy_points(stats_data[k]))
            /\ \A j \in 1..(k - 1) : ~IsRaised(calculate_fantasy_points(stats_data[j]))])

\* lines 41-53: score and normalise every record
FormatPlayers(stats_data) ==
    [k \in 1..Len(stats_data) |->
        [name |-> Get(stats_data[k], "Name", PyStr("")),
         team |-> Get(stats_data[k], "Team", PyStr("")),
         position |-> Get(stats_data[k], "Position", PyStr("")),
         stats |-> [fantasy_points |-> calculate_fantasy_points(stats_data[k])]]]

\* the empty batch is not told apart
NeverEmpty(all_players) == FALSE

\* if not all_players (line 55)
IsEmptyBatch(all_players) == Len(all_players) = 0

\* lines 7-20: read the environment and the event, refuse a missing API key.
\* os.environ['DB_SECRET_ARN'] is read before the try block.
Invoke(p, events) ==
    /\ inv[p].pc = "idle"
    /\ invocations < MaxInvocations
    /\ \E env \in Envs, event \in events :
         LET s == [IdleProc EXCEPT !.env = env, !.event = event,
                                   !.current_week = Get(event, "week", PyInt(DefaultWeek)),
                                   !.current_year = Get(event, "year", PyInt(DefaultYear))]
         IN  inv' = [inv EXCEPT ![p] =
               IF "DB_SECRET_ARN" \notin DOMAIN env
               THEN [s EXCEPT !.pc = "done", !.result = Uncaught("KeyError: 'DB_SECRET_ARN'")]
               ELSE IF ~Truthy(Get(env, "SPORTSDATA_API_KEY", PyNone))
               THEN [s EXCEPT !.pc = "done",
                              !.result = Response(400,
                                  PyStr("SPORTSDATA_API_KEY environment variable required"))]
               ELSE [s EXCEPT !.pc = IF Truthy(Get(event, "week", PyNone))
                                     THEN "fetch_stats" ELSE "resolve_week"]]
    /\ invocations' = invocations + 1
    /\ snapshot' = [snapshot EXCEPT ![p] =
                        [tables |-> tables, storage |-> Storage, lastRun |-> lastRun]]
    /\ UNCHANGED <<tables, players, games, player_stats, seq, today, lastRun, score>>

\* lines 28-31: the CurrentWeek request; raise_for_status or the request raises
ResolveWeek(p, bodies) ==
    /\ inv[p].pc = "resolve_week"
    /\ \E out \in {Raised("HTTPError: CurrentWeek")} \cup {[type |-> "json", body |-> b] : b \in bodies} :
         LET s == [inv[p] EXCEPT !.requests = @ + 1]
         IN  inv' = [inv EXCEPT ![p] =
               IF IsRaised(out) THEN Fail500([s EXCEPT !.transport_error = out], out.text)
               ELSE [s EXCEPT !.pc = "fetch_stats",
                              !.current_week = Get(out.body, "Week", PyInt(DefaultWeek))]]
    /\ UNCHANGED <<tables, players, games, player_stats, seq, today, snapshot,
                   invocations, lastRun, score>>

\* lines 33-59: the PlayerGameStatsByWeek request, scoring and normalising,
\* and the empty-result return
FetchStats(p, batches) ==
    /\ inv[p].pc = "fetch_stats"
    /\ \E out \in {Raised("HTTPError: PlayerGameStatsByWeek")} \cup {[type |-> "json", body |-> b] : b \in batches} :
         LET s == [inv[p] EXCEPT !.requests = @ + 1]
         IN  inv' = [inv EXCEPT ![p] =
               IF IsRaised(out) THEN Fail500([s EXCEPT !.transport_error = out], out.text)
               ELSE LET s1 == [s EXCEPT !.stats_data = out.body, !.fetched = TRUE]
                    IN  IF ScoreFails(out.body)
                        THEN Fail500(s1, FirstScoreError(out.body).text)
                        ELSE IF IsEmptyBatch(FormatPlayers(out.body))
                        THEN [s1 EXCEPT !.pc = "done",
                                        !.result = Response(200, PyStr("No players found from API"))]
                        ELSE [s1 EXCEPT !.pc = "connect",
                                        !.all_players = FormatPlayers(out.body)]]
    /\ UNCHANGED <<tables, players, games, player_stats, seq, today, snapshot,
                   invocations, lastRun, score>>

\* lines 61-72: the secret and the connection; either call may raise
Connect(p) ==
    /\ inv[p].pc = "connect"
    /\ \E out \in {"ok", "ClientError: GetSecretValue", "OperationalError: connection refused"} :
         inv' = [inv EXCEPT ![p] =
               IF out = "ok" THEN [inv[p] EXCEPT !.pc = "create_tables", !.connected = TRUE]
               ELSE Fail500(inv[p], out)]
    /\ UNCHANGED <<tables, players, games, player_stats, seq, today, snapshot,
                   invocations, lastRun, score>>

\* lines 74-103: CREATE TABLE IF NOT EXISTS x3 and its own commit
CreateTables(p) ==
    /\ inv[p].pc = "create_tables"
    /\ \E ok \in BOOLEAN :
         IF ok
         THEN /\ tables' = TRUE
              /\ inv' = [inv EXCEPT ![p] = [inv[p] EXCEPT !.pc = "upsert_game", !.dbOps = @ + 1]]
         ELSE /\ tables' = tables
              /\ inv' = [inv EXCEPT ![p] =
                            Fail500([inv[p] EXCEPT !.dbOps = @ + 1], "OperationalError: statement failed")]
    /\ UNCHANGED <<players, games, player_stats, seq, today, snapshot, invocations,
                   lastRun, score>>

\* for player in all_players: the next iteration, or the end of the loop
NextIter(s) ==
    [s EXCEPT !.i = s.i + 1,
              !.pc = IF s.i + 1 > Len(s.all_players) THEN "commit" ELSE "upsert_player"]

\* lines 105-115: the game upsert, which opens the transaction of the batch.
\* CURRENT_DATE and CURRENT_TIMESTAMP are the transaction's start time for
\* every statement of it: the clock is read here, having advanced or not.
UpsertGame(p) ==
    LET s == inv[p]
        week == s.current_week.val
        year == s.current_year.val
        id == seq.games + 1
    IN  /\ s.pc = "upsert_game"
        /\ ~GameLockedByOther(p, week, year)
        /\ seq' = [seq EXCEPT !.games = id]
        /\ \E now \in today..MaxDay :
             LET rows == UpsertGameRows(Overlay(games, s.tx.games), s.tx.games,
                                        week, year, id, now)
             IN  /\ today' = now
                 /\ inv' = [inv EXCEPT ![p] =
                               NextIter([s EXCEPT !.i = 0, !.success_count = 0,
                                                  !.dbOps = @ + 1, !.tx.games = rows,
                                                  !.txdate = now,
                                                  !.game_id = ReturnedGameId(rows, week, year)])]
        /\ UNCHANGED <<tables, players, games, player_stats, snapshot,
                       invocations, lastRun, score>>

\* except Exception as e: ... continue (lines 138-140).  The failed statement
\* has aborted the transaction; nothing rolls it back to a savepoint.
OnRecordError(s) == NextIter([s EXCEPT !.aborted = TRUE])

\* lines 118-124: the players upsert of record i.  In an aborted transaction
\* every statement fails; otherwise the statement draws nextval, then fails
\* on a column constraint or upserts.
UpsertPlayer(p) ==
    LET s == inv[p]
        player == s.all_players[s.i]
        name == Get(player, "name", PyStr(""))
        team == Get(player, "team", PyStr(""))
        position == Get(player, "position", PyStr(""))
        id == seq.players + 1
        rows == UpsertPlayerRows(Overlay(players, s.tx.players), s.tx.players,
                                 name, team, position, id)
    IN  /\ s.pc = "upsert_player"
        /\ IF s.aborted
           THEN /\ inv' = [inv EXCEPT ![p] = OnRecordError([s EXCEPT !.dbOps = @ + 1])]
                /\ seq' = seq
           ELSE IF ~ValidPlayerValues(name, team, position)
           THEN /\ inv' = [inv EXCEPT ![p] = OnRecordError([s EXCEPT !.dbOps = @ + 1])]
                /\ seq' = [seq EXCEPT !.players = id]
           ELSE /\ ~PlayerLockedByOther(p, name, team)
                /\ inv' = [inv EXCEPT ![p] =
                              [s EXCEPT !.pc = "upsert_stat", !.dbOps = @ + 1,
                                        !.tx.players = rows,
                                        !.player_id = ReturnedPlayerId(rows, name, team, id)]]
                /\ seq' = [seq EXCEPT !.players = id]
        /\ UNCHANGED <<tables, players, games, player_stats, today, snapshot,
                       invocations, lastRun, score>>

\* lines 126-136: the player_stats upsert of record i and success_count += 1
UpsertStat(p) ==
    LET s == inv[p]
        player == s.all_players[s.i]
        stats == Get(player, "stats", EmptyDict)
        fantasy_points == Get(stats, "fantasy_points", PyInt(0))
        id == seq.player_stats + 1
        rows == UpsertStatRows(Overlay(player_stats, s.tx.player_stats), s.tx.player_stats,
                               s.player_id, s.game_id, fantasy_points, id, s.txdate)
    IN  /\ s.pc = "upsert_stat"
        /\ IF ~FitsNumeric(fantasy_points)
           THEN inv' = [inv EXCEPT ![p] = OnRecordError([s EXCEPT !.dbOps = @ + 1])]
           ELSE /\ ~StatLockedByOther(p, s.player_id, s.game_id)
                /\ inv' = [inv EXCEPT ![p] =
                              NextIter([s EXCEPT !.dbOps = @ + 1,
                                                 !.tx.player_stats = rows,
                                                 !.success_count = @ + 1])]
        /\ seq' = [seq EXCEPT !.player_stats = id]
        /\ UNCHANGED <<tables, players, games, player_stats, today, snapshot,
                       invocations, lastRun, score>>

\* the body of the success response (lines 146-155)
Summary(s) ==
    [type |-> "dict",
     message |-> "Successfully processed " \o ToString(s.success_count)
                 \o " players from SportsData.io API",
     week |-> s.current_week,
     year |-> s.current_year,
     total_players_found |-> Len(s.all_players),
     data_source |-> "sportsdata.io"]

\* lines 142-155: commit, close, return the summary
Commit(p) ==
    LET s == inv[p]
    IN  /\ s.pc = "commit"
        /\ players' = CommitRows(players, s.tx.players, s.aborted)
        /\ games' = CommitRows(games, s.tx.games, s.aborted)
        /\ player_stats' = CommitRows(player_stats, s.tx.player_stats, s.aborted)
        /\ inv' = [inv EXCEPT ![p] =
                      [s EXCEPT !.pc = "done", !.dbOps = @ + 1, !.tx = EmptyTx,
                                !.result = Response(200, Summary(s))]]
        /\ lastRun' = [week |-> s.current_week, year |-> s.current_year,
                        stats_data |-> s.stats_data]
        /\ UNCHANGED <<tables, seq, today, snapshot, invocations, score>>

\* the invocation is over: its locals are gone
Return(p) ==
    /\ inv[p].pc = "done"
    /\ inv' = [inv EXCEPT ![p] = IdleProc]
    /\ snapshot' = [snapshot EXCEPT ![p] = NoSnapshot]
    /\ UNCHANGED <<tables, players, games, player_stats, seq, today,
                   invocations, lastRun, score>>

\* the key the next statement of p waits on is held by q
WaitsFor(p, q) ==
    LET s == inv[p]
    IN  /\ q # p
        /\ \/ /\ s.pc = "upsert_game"
              /\ \E r \in inv[q].tx.games :
                     GameConflict(r, s.current_week.val, s.current_year.val)
           \/ /\ s.pc = "upsert_player"
              /\ ~s.aborted
              /\ ValidPlayerValues(s.all_players[s.i].name, s.all_players[s.i].team,
                                   s.all_players[s.i].position)
              /\ \E r \in inv[q].tx.players :
                     PlayerConflict(r, s.all_players[s.i].name, s.all_players[s.i].team)

\* PostgreSQL's deadlock detector: of two transactions waiting on each
\* other, one has its statement fail ("deadlock detected"), inside the
\* per-player try of lines 117-140
DeadlockAbort(p) ==
    /\ \E q \in Procs : WaitsFor(p, q) /\ WaitsFor(q, p)
    /\ inv[p].pc = "upsert_player"
    /\ inv' = [inv EXCEPT ![p] = OnRecordError([inv[p] EXCEPT !.dbOps = @ + 1])]
    /\ UNCHANGED <<tables, players, games, player_stats, seq, today, snapshot,
                   invocations, lastRun, score>>

(* --------------------------- specifications ---------------------------- *)
NoScore == [stat |-> EmptyDict, done |-> FALSE, points |-> [n |-> 0, d |-> 1],
            lambda |-> PyNone, scraper |-> PyNone]

InitStorage ==
    /\ tables = FALSE
    /\ players = {}
    /\ games = {}
    /\ player_stats = {}
    /\ seq = [players |-> 0, games |-> 0, player_stats |-> 0]
    /\ today = 0
    /\ inv = [p \in Procs |-> IdleProc]
    /\ snapshot = [p \in Procs |-> NoSnapshot]
    /\ lastRun = NoRun
    /\ invocations = 0

Init == InitStorage /\ score = NoScore

Step(p, in) ==
    \/ Invoke(p, in.events)
    \/ ResolveWeek(p, in.bodies)
    \/ FetchStats(p, in.batches)
    \/ Connect(p)
    \/ CreateTables(p)
    \/ UpsertGame(p)
    \/ UpsertPlayer(p)
    \/ UpsertStat(p)
    \/ Commit(p)
    \/ Return(p)

\* invocations one after another
Next == Step(1, Inputs)

Spec == Init /\ [][Next]_vars

\* two invocations at a time
NextConc == \E p \in Procs : Step(p, ConcInputs) \/ DeadlockAbort(p)

SpecConc == Init /\ [][NextConc]_vars

(* ------------------------ the scoring specification ------------------- *)
YardFields == {"PassingYards", "RushingYards", "ReceivingYards"}
CountFields == StatFields \ YardFields

\* marks a key the record does not have
Absent == [type |-> "absent"]

\* the record with the keys that are not marked absent
MkStat(f) == [k \in {x \in DOMAIN f : f[x] # Absent} |-> f[k]]

\* the record with all nine fields present and zero
AllZero == [k \in StatFields |-> PyInt(0)]

\* the records over the nine fields: each yard field absent or in
\* -MaxYards..MaxYards, each count absent or in 1..MaxCount; and AllZero
ScoreInputs ==
    { MkStat([k \in StatFields |-> IF k \in YardFields THEN y[k] ELSE c[k]]) :
        y \in [YardFields -> {Absent} \cup {PyInt(n) : n \in -MaxYards..MaxYards}],
        c \in [CountFields -> {Absent} \cup {PyInt(n) : n \in 1..MaxCount}] }
    \cup {AllZero}

InitScore ==
    /\ InitStorage
    /\ score \in {[NoScore EXCEPT !.stat = s] : s \in ScoreInputs}

\* both copies of calculate_fantasy_points applied to the record; points is
\* the value the first holds before it rounds
ScoreRecord ==
    /\ ~score.done
    /\ score' = [score EXCEPT !.done = TRUE,
                              !.points = UnroundedPoints(score.stat),
                              !.lambda = calculate_fantasy_points(score.stat),
                              !.scraper = Scraper_calculate_fantasy_points(score.stat)]
    /\ UNCHANGED <<tables, players, games, player_stats, seq, today, inv, snapshot,
                   invocations, lastRun>>

NextScore == ScoreRecord

SpecScore == InitScore /\ [][NextScore]_vars

(* ------------------------------- claims -------------------------------- *)
Done(p) == inv[p].pc = "done"

\* the invocation returned the success summary
ReturnedSummary(s) ==
    /\ s.result.kind = "response"
    /\ s.result.statusCode = 200
    /\ s.result.body.type = "dict"

\* the secret store, the connection or CREATE TABLE failed
EnvFault(s) ==
    /\ s.result.kind = "response"
    /\ s.result.statusCode = 500
    /\ s.result.body \in {PyStr("Error: " \o e) :
           e \in {"ClientError: GetSecretValue", "OperationalError: connection refused",
                  "OperationalError: statement failed"}}

\* a record that cannot be scored or stored
FailingRecord(stat) ==
    \/ IsRaised(calculate_fantasy_points(stat))
    \/ ~ValidPlayerValues(Get(stat, "Name", PyStr("")), Get(stat, "Team", PyStr("")),
                          Get(stat, "Position", PyStr("")))
    \/ ~FitsNumeric(calculate_fantasy_points(stat))

\* the record has its Player row and its PlayerStat row for (week, year)
StoredRecord(stat, week, year) ==
    \E pr \in players, g \in games, st \in player_stats :
        /\ pr.name = Get(stat, "Name", PyStr(""))
        /\ pr.team = Get(stat, "Team", PyStr(""))
        /\ g.week = week /\ g.year = year
        /\ st.player_id = pr.id /\ st.game_id = g.id

\* C1: an invocation whose batch holds exactly one failing record, wherever
\* it stands, returns the summary with success count total - 1 and leaves
\* every other record of the batch stored.
C1_PartialFailureIsolation ==
    \A p \in Procs :
        LET s == inv[p]
            n == Len(s.stats_data)
        IN  (/\ Done(p) /\ s.fetched /\ ~EnvFault(s)
             /\ Cardinality({k \in 1..n : FailingRecord(s.stats_data[k])}) = 1)
            => /\ ReturnedSummary(s)
               /\ s.result.body.message = "Successfully processed " \o ToString(n - 1)
                                          \o " players from SportsData.io API"
               /\ \A k \in 1..n :
                      ~FailingRecord(s.stats_data[k])
                      => StoredRecord(s.stats_data[k], s.current_week.val, s.current_year.val)

\* the rows of the three tables without their dates
RowSet(st) ==
    [players |-> st.players,
     games |-> {[id |-> g.id, week |-> g.week, year |-> g.year] : g \in st.games},
     player_stats |-> {[id |-> r.id, player_id |-> r.player_id, game_id |-> r.game_id,
                        fantasy_points |-> r.fantasy_points] : r \in st.player_stats}]

\* C2: an invocation that persists the (week, year, batch) the previous
\* commit persisted leaves the rows of the three tables, and every
\* fantasy-point value, as it found them.
C2_Idempotence ==
    \A p \in Procs :
        LET s == inv[p]
        IN  (/\ Done(p) /\ ReturnedSummary(s)
             /\ snapshot[p].lastRun = [week |-> s.current_week, year |-> s.current_year,
                                       stats_data |-> s.stats_data])
            => RowSet(Storage) = RowSet(snapshot[p].storage)

\* the last record of the batch with the key of record k
LastWithKey(all_players, k) ==
    CHOOSE j \in k..Len(all_players) :
        /\ all_players[j].name = all_players[k].name
        /\ all_players[j].team = all_players[k].team
        /\ \A m \in (j + 1)..Len(all_players) :
               ~(all_players[m].name = all_players[k].name
                 /\ all_players[m].team = all_players[k].team)

\* C3: when an invocation has committed, the Player row of each (name, team)
\* of its batch holds the position of the last record with that key, and the
\* PlayerStat row of that player and the game holds that record's points.
C3_LastWriterWins ==
    \A p \in Procs :
        LET s == inv[p]
        IN  (Done(p) /\ ReturnedSummary(s) /\ ~s.aborted)
            => \A k \in 1..Len(s.all_players) :
                 LET last == s.all_players[LastWithKey(s.all_players, k)]
                 IN  \A pr \in players :
                        (pr.name = last.name /\ pr.team = last.team)
                        => /\ pr.position = last.position
                           /\ \A st \in player_stats :
                                (st.player_id = pr.id /\ st.game_id = s.game_id)
                                => st.fantasy_points = 10 * last.stats.fantasy_points.tenths

\* C4: no two Player rows share (name, team), no two Game rows share
\* (week, year), no two PlayerStat rows share (player, game).
C4_Uniqueness ==
    /\ \A a, b \in players : (a.name = b.name /\ a.team = b.team) => a = b
    /\ \A a, b \in games : (a.week = b.week /\ a.year = b.year) => a = b
    /\ \A a, b \in player_stats :
           (a.player_id = b.player_id /\ a.game_id = b.game_id) => a = b

\* C5: every invocation ends with a response that has a status code and a
\* body; no exception leaves lambda_handler.
C5_AlwaysResponds ==
    \A p \in Procs :
        Done(p) => /\ inv[p].result.kind = "response"
                   /\ inv[p].result.statusCode \in {200, 400, 500}

\* C6: with the API key absent the invocation returns the 400 response,
\* having made no request and no database operation.
C6_ConfigErrorFirst ==
    \A p \in Procs :
        LET s == inv[p]
        IN  (Done(p) /\ "SPORTSDATA_API_KEY" \notin DOMAIN s.env)
            => /\ s.result = Response(400,
                      PyStr("SPORTSDATA_API_KEY environment variable required"))
               /\ s.requests = 0 /\ ~s.connected /\ s.dbOps = 0

\* C7: an invocation whose CurrentWeek or stats request failed returns 500
\* with the error's text, has repeated no request, and has touched neither
\* the connection nor any row.
C7_TransportFailureFatal ==
    \A p \in Procs :
        LET s == inv[p]
        IN  (Done(p) /\ s.transport_error # PyNone)
            => /\ s.result = Response(500, PyStr("Error: " \o s.transport_error.text))
               /\ s.requests = IF Truthy(Get(s.event, "week", PyNone)) THEN 1
                               ELSE IF s.transport_error.text = "HTTPError: CurrentWeek" THEN 1
                               ELSE 2
               /\ ~s.connected /\ s.dbOps = 0
               /\ Storage = snapshot[p].storage
               /\ tables = snapshot[p].tables

\* the stats request failed after the week was resolved, with rows in storage
C7_Witness ==
    \E p \in Procs :
        /\ Done(p)
        /\ inv[p].transport_error = Raised("HTTPError: PlayerGameStatsByWeek")
        /\ inv[p].requests = 2
        /\ players # {} /\ player_stats # {}

\* C8: an invocation that fetched zero records returns 200 with the
\* empty-result message, without a connection, a statement or a change to
\* any table.
C8_EmptyInputSkipsPersistence ==
    \A p \in Procs :
        LET s == inv[p]
        IN  (Done(p) /\ s.fetched /\ Len(s.stats_data) = 0)
            => /\ s.result = Response(200, PyStr("No players found from API"))
               /\ ~s.connected /\ s.dbOps = 0
               /\ Storage = snapshot[p].storage
               /\ tables = snapshot[p].tables

\* zero records for a week that has no Game row, while another week has one
C8_Witness ==
    \E p \in Procs :
        /\ Done(p) /\ inv[p].fetched /\ Len(inv[p].stats_data) = 0
        /\ games # {}
        /\ \A g \in games : g.week # inv[p].current_week.val

\* the process that committed last, of two
LastWriter(p, q) == IF lastRun.stats_data = inv[q].stats_data THEN q ELSE p

\* the number of rows with the key of a normalised record
PlayerRows(pl) == {pr \in players : pr.name = pl.name /\ pr.team = pl.team}

\* C10: two invocations for the same (week, year) that overlap and both
\* reach persistence both return the summary, and leave one Game row, one
\* Player row per (name, team), one PlayerStat row per (player, game), with
\* the values of whichever committed last.
C10_BenignRace ==
    \A p, q \in Procs :
        LET s == inv[p]
            o == inv[q]
            w == inv[LastWriter(p, q)]
        IN  (/\ p # q /\ Done(p) /\ Done(q)
             /\ s.connected /\ o.connected /\ ~EnvFault(s) /\ ~EnvFault(o)
             /\ s.current_week = o.current_week /\ s.current_year = o.current_year)
            => /\ ReturnedSummary(s) /\ ReturnedSummary(o)
               /\ Cardinality({g \in games : g.week = s.current_week.val
                                             /\ g.year = s.current_year.val}) = 1
               /\ \A b \in {s, o} : \A k \in 1..Len(b.all_players) :
                      /\ Cardinality(PlayerRows(b.all_players[k])) = 1
                      /\ \A pr \in PlayerRows(b.all_players[k]) :
                             Cardinality({st \in player_stats :
                                 st.player_id = pr.id /\ st.game_id = b.game_id}) = 1
               /\ \A k \in 1..Len(w.all_players) :
                      \A pr \in PlayerRows(w.all_players[k]) :
                          pr.position = w.all_players[LastWithKey(w.all_players, k)].position

\* the value of a field of a record, an absent field being zero
Field(stat, k) == IF k \in DOMAIN stat THEN stat[k].val ELSE 0

\* fifty times passing_yards/25 + 4*passing_touchdowns - 2*interceptions
\* + rushing_yards/10 + 6*rushing_touchdowns + receiving_yards/10
\* + 6*receiving_touchdowns + receptions - 2*fumbles
Formula50(stat) ==
      2 * Field(stat, "PassingYards") + 200 * Field(stat, "PassingTouchdowns")
    - 100 * Field(stat, "Interceptions") + 5 * Field(stat, "RushingYards")
    + 300 * Field(stat, "RushingTouchdowns") + 5 * Field(stat, "ReceivingYards")
    + 300 * Field(stat, "ReceivingTouchdowns") + 50 * Field(stat, "Receptions")
    - 100 * Field(stat, "Fumbles")

Abs(n) == IF n < 0 THEN -n ELSE n

\* C9: for every record whose fields are integers or absent, the score is
\* the formula's value rounded to one decimal place (a number of tenths
\* within half a tenth of the untruncated value), it is 0.0 for the empty
\* and the all-zero record, and the two copies of the function agree.
C9_ScoringFormula ==
    score.done =>
        /\ score.lambda.type = "float"
        /\ 2 * Abs(5 * score.lambda.tenths - Formula50(score.stat)) <= 5
        /\ (\A k \in DOMAIN score.stat : score.stat[k].val = 0) => score.lambda.tenths = 0
        /\ score.scraper = score.lambda

\* a scored record with an absent field whose exact value is not a whole
\* number of tenths and not zero
C9_Witness ==
    /\ score.done
    /\ DOMAIN score.stat # StatFields
    /\ Formula50(score.stat) % 5 # 0
    /\ score.lambda.tenths # 0
    /\ "Receptions" \in DOMAIN score.stat

\* the records of the batch that have their Player row and their
\* PlayerStat row in committed storage
StoredRecords(s) ==
    {k \in 1..Len(s.stats_data) :
        StoredRecord(s.stats_data[k], s.current_week.val, s.current_year.val)}

\* C11: when an invocation returns the success summary, total_players_found
\* is the number of records fetched, the reported success count is at most
\* that total, and the reported success count is the number of records of
\* the batch whose Player and PlayerStat rows are in committed storage.
C11_SummaryAccuracy ==
    \A p \in Procs :
        LET s == inv[p]
            n == Len(s.stats_data)
        IN  (Done(p) /\ ReturnedSummary(s) /\ s.fetched /\ n > 0)
            => /\ s.result.body.total_players_found = n
               /\ \E c \in 0..n :
                      /\ s.result.body.message = "Successfully processed " \o ToString(c)
                                                 \o " players from SportsData.io API"
                      /\ c = Cardinality(StoredRecords(s))

\* round(points, 1) for points = n/d (d > 0) with ties rounded up: the
\* number of tenths
RoundHalfUp(n, d) == (20 * n + d) \div (2 * d)

\* C12: for every record whose fields are integers or absent, ten times
\* the value the function holds before rounding is 2*passing_yards/5 plus
\* an integer, it never has fractional part exactly one half, and the
\* returned score is what rounding half-up gives as well.
C12_NoRoundingTies ==
    score.done =>
        LET n == score.points.n
            d == score.points.d
        IN  /\ (50 * n - 2 * Field(score.stat, "PassingYards") * d) % (5 * d) = 0
            /\ 2 * ((10 * n) % d) # d
            /\ score.lambda = PyFloat(RoundHalfUp(n, d))

\* a scored record with all nine fields present whose passing yards are
\* not a multiple of five, so that the score is not a whole number of
\* tenths and rounding acts
C12_Witness ==
    /\ score.done
    /\ DOMAIN score.stat = StatFields
    /\ score.stat["PassingYards"].val % 5 # 0
    /\ (10 * score.points.n) % score.points.d # 0
    /\ score.lambda.tenths # 0

====
